---- MODULE Spec2Model ----
(***************************************************************************)
(* Model of Firmware/main.py: a 4x4 KMK macropad with 4 layers, one RGBW   *)
(* pixel per key and an OLED status text.                                  *)
(*                                                                         *)
(* A scan cycle is zero or more key events, each handled by                *)
(* KeyLEDModule.process_key (a press of position 14 / 15 also runs the     *)
(* macro prev_layer / next_layer), followed by one LayerWatch.matrix_scan  *)
(* pass.                                                                   *)
(***************************************************************************)
EXTENDS Integers, Sequences, FiniteSets, TLC

\* ------------------------------------------------------------------------
\* Program constants
\* ------------------------------------------------------------------------
NumPixels == 16
NumLayers == 4

\* ------------------------------------------------------------------------
\* Bounds of the model
\* ------------------------------------------------------------------------
\* The matrix delivers events for the last MaxKeys positions (the two cycle
\* keys 14, 15 and the positions just below them: position 13 is KC.D, KC.NO,
\* KC.NO, KC.N on layers 0..3); all 16 pixels are modelled.
MaxKeys == 3
\* At most MaxHeld keys are held down at the same time.
MaxHeld == 2
\* At most MaxCycleEvents key events are handled in one scan cycle.
MaxCycleEvents == 3
\* At most MaxExternal layer activations come from outside the cycle keys.
MaxExternal == 1

Positions == 0 .. (NumPixels - 1)
Layers == 0 .. (NumLayers - 1)
ScanKeys == (NumPixels - MaxKeys) .. (NumPixels - 1)

\* ------------------------------------------------------------------------
\* Static configuration
\* ------------------------------------------------------------------------
L_PREV == "L_PREV"
L_NEXT == "L_NEXT"

\* keyboard.keymap[layer][position], 0-based in the source, 1-based here.
keymap ==
  << << "KP_1", "KP_2", "KP_3", "KP_4",
        "KP_5", "KP_6", "KP_7", "KP_8",
        "KP_9", "KP_0", "A",    "B",
        "C",    "D",    L_PREV, L_NEXT >>,
     << "F1", "F2",  "F3", "F4",
        "F5", "F6",  "F7", "F8",
        "F9", "F10", "NO", "NO",
        "NO", "NO",  L_PREV, L_NEXT >>,
     << "MUTE", "VOLU", "VOLD", "NO",
        "MPRV", "MPLY", "MNXT", "NO",
        "NO",   "NO",   "NO",   "NO",
        "NO",   "NO",   L_PREV, L_NEXT >>,
     << "A", "B", "C", "D",
        "E", "F", "G", "H",
        "I", "J", "K", "L",
        "M", "N", L_PREV, L_NEXT >> >>

KeyAt(layer, pos) == keymap[layer + 1][pos + 1]

layer_base_colors ==
  << << 0,  0, 64, 0 >>,
     << 0, 64,  0, 0 >>,
     << 64, 0,  0, 0 >>,
     << 0, 64, 64, 0 >> >>

BaseColor(layer_idx) == layer_base_colors[layer_idx + 1]

\* The press visual of process_key: bright white on the W channel.
PressedColor == << 0, 0, 0, 255 >>

\* ------------------------------------------------------------------------
\* State
\* ------------------------------------------------------------------------
VARIABLES
  active_layer,       \* keyboard.active_layers[0]
  pixels,             \* the 16 RGBW values last given to rgb.set_pixel
  last_key_pressed,   \* the global last_key_pressed
  text,               \* oled.drivers[0].text
  last_layer,         \* LayerWatch._last_layer: << >> while the attribute is unset
  coordkeys_pressed,  \* per position: << >>, or << key, layer >> of the press held
  returned,           \* << >>, or << key >>: what the last process_key call returned
  cycle_log,          \* the events handled in the current scan cycle, in order
  phase,              \* "events" while a cycle handles events, "scanned" after its
                      \* LayerWatch pass
  n_external,         \* how many activations came from outside the cycle keys
  net_zero            \* TRUE from a press that brings the layer back to the one the
                      \* cycle started with after a release in between, until the
                      \* next press or activation

vars == << active_layer, pixels, last_key_pressed, text, last_layer,
           coordkeys_pressed, returned, cycle_log, phase, n_external, net_zero >>

\* ------------------------------------------------------------------------
\* Pure helpers
\* ------------------------------------------------------------------------
\* str(key): the display label of a key object.
Str(key) == "KC." \o key

\* update_oled: the f-string written to the text driver.
OledText(layer, label) ==
  "4x4 Macropad\nLayer: " \o ToString(layer) \o "\nKey: " \o label \o "\n"

\* next_layer / prev_layer: the index given to keyboard.activate_layer.
NextLayerWrong(cur) == IF cur = NumLayers - 1 THEN cur ELSE cur + 1
next_layer_new(cur) == (cur + 1) % NumLayers

PrevLayerWrong(cur) == IF cur = 0 THEN 0 ELSE cur - 1
prev_layer_new(cur) == (cur - 1) % NumLayers

\* Whether the event runs the key's macro: KC.MACRO keys run their callable
\* on press only.
MacroRunsOnRelease(key, is_pressed) == key \in {L_PREV, L_NEXT}
MacroRuns(key, is_pressed) == is_pressed /\ key \in {L_PREV, L_NEXT}

\* The layer after the key's macro (if any) has run.
LayerAfterMacro(cur, key, is_pressed) ==
  IF ~MacroRuns(key, is_pressed) THEN cur
  ELSE IF key = L_NEXT THEN next_layer_new(cur)
  ELSE prev_layer_new(cur)

\* process_key, press branch: the label stored in last_key_pressed.
PressLabelSkipsCycleKeys(key, old_label) ==
  IF key \in {L_PREV, L_NEXT} THEN old_label ELSE Str(key)
PressLabelSkipsNoOp(key, old_label) ==
  IF key = "NO" THEN old_label ELSE Str(key)
PressLabel(key, old_label) == Str(key)

\* process_key, release branch: the layer whose base color is restored.
\* cur is the layer active at the release, at_press the one active at the press.
ReleaseLayerStale(cur, at_press) == at_press
ReleaseLayer(cur, at_press) == cur

\* process_key: the pixel buffer after the set_pixel call of either branch.
ProcessKeyPixelsSkipsNoOp(px, key, is_pressed, led_index, base_layer) ==
  IF key = "NO" THEN px
  ELSE IF is_pressed THEN [px EXCEPT ![led_index] = PressedColor]
  ELSE [px EXCEPT ![led_index] = BaseColor(base_layer)]
ProcessKeyPixelsRepaintsOnRelease(px, key, is_pressed, led_index, base_layer) ==
  IF is_pressed THEN [px EXCEPT ![led_index] = PressedColor]
  ELSE [pix \in DOMAIN px |-> BaseColor(base_layer)]
ProcessKeyPixels(px, key, is_pressed, led_index, base_layer) ==
  IF is_pressed THEN [px EXCEPT ![led_index] = PressedColor]
  ELSE [px EXCEPT ![led_index] = BaseColor(base_layer)]

\* process_key: the value returned to the caller.
ProcessKeyReturnDropsMacro(key) == IF key \in {L_PREV, L_NEXT} THEN << >> ELSE << key >>
ProcessKeyReturn(key) == << key >>

\* The loop of apply_layer_colors: rgb.set_pixel(pix, r, g, b, w) for pix in
\* range(n), on the buffer px.
RECURSIVE SetPixelRange(_, _, _)
SetPixelRange(px, n, color) ==
  IF n = 0 THEN px
  ELSE [SetPixelRange(px, n - 1, color) EXCEPT ![n - 1] = color]

\* apply_layer_colors: every pixel set to the layer's base color.
ApplyLayerColorsShort(px, layer_idx) ==
  SetPixelRange(px, NumPixels - 1, BaseColor(layer_idx))
apply_layer_colors(px, layer_idx) ==
  SetPixelRange(px, NumPixels, BaseColor(layer_idx))

\* The pixel buffer of the RGB module before line 191 runs: all off.
PixelsOff == [pix \in Positions |-> << 0, 0, 0, 0 >>]

\* LayerWatch.matrix_scan: the value _last_layer gets when the attribute is
\* missing, and the test that decides whether colors and text are re-applied.
InitialLastLayerZero(cur) == 0
InitialLastLayer(cur) == cur

WatchAlways(cur, remembered) == TRUE
WatchChanged(cur, remembered) == cur # remembered

Held(p) == coordkeys_pressed[p] # << >>
HeldSet == {p \in Positions : Held(p)}

\* The log of the cycle an event belongs to: a new cycle starts after a scan.
LogWith(e) == IF phase = "scanned" THEN << e >> ELSE Append(cycle_log, e)
RoomForEvent == phase = "scanned" \/ Len(cycle_log) < MaxCycleEvents

CycleKeys == {14, 15}

\* The layer the running cycle started with: every LayerWatch pass leaves it
\* in _last_layer, and before the first pass it is the startup layer.
CycleStartLayer == IF last_layer = << >> THEN 0 ELSE last_layer[1]

\* The log shows the layer cycled, then a key held since before the cycle
\* released, then the layer cycled again, and the layer is back at `start`.
NetZeroWithRelease(log, start, layer) ==
  /\ layer = start
  /\ \E i, j, k \in 1 .. Len(log) :
       /\ i < j /\ j < k
       /\ log[i].kind = "press" /\ log[i].pos \in CycleKeys
       /\ log[j].kind = "release"
       /\ \A h \in 1 .. (j - 1) : log[h].pos # log[j].pos
       /\ log[k].kind = "press" /\ log[k].pos \in CycleKeys

\* ------------------------------------------------------------------------
\* Initial state: module-level code has run (lines 141, 191, 192)
\* ------------------------------------------------------------------------
Init ==
  /\ active_layer = 0
  /\ pixels = apply_layer_colors(PixelsOff, 0)
  /\ last_key_pressed = "None"
  /\ text = OledText(0, "None")
  /\ last_layer = << >>
  /\ coordkeys_pressed = [p \in Positions |-> << >>]
  /\ returned = << >>
  /\ cycle_log = << >>
  /\ phase = "events"
  /\ n_external = 0
  /\ net_zero = FALSE

\* ------------------------------------------------------------------------
\* Actions
\* ------------------------------------------------------------------------
\* A press of position p: process_key(key, True, (row, col, p)), then the
\* key's macro (next_layer / prev_layer) when it has one.
PressKey(p) ==
  LET key == KeyAt(active_layer, p)
      label == PressLabel(key, last_key_pressed)
      new_layer == LayerAfterMacro(active_layer, key, TRUE)
  IN  /\ ~Held(p)
      /\ Cardinality(HeldSet) < MaxHeld
      /\ RoomForEvent
      /\ last_key_pressed' = label
      /\ pixels' = ProcessKeyPixels(pixels, key, TRUE, p, active_layer)
      /\ active_layer' = new_layer
      \* update_oled of process_key, then update_oled of the macro: both write
      \* the same label, the last one with the layer the macro activated.
      /\ text' = OledText(new_layer, label)
      /\ coordkeys_pressed' = [coordkeys_pressed EXCEPT ![p] = << key, active_layer >>]
      /\ returned' = ProcessKeyReturn(key)
      /\ cycle_log' = LogWith([kind |-> "press", pos |-> p])
      /\ phase' = "events"
      /\ net_zero' = NetZeroWithRelease(cycle_log', CycleStartLayer, new_layer)
      /\ UNCHANGED << last_layer, n_external >>

\* A release of position p: process_key(key, False, (row, col, p)) with the
\* key that was pressed at p.
ReleaseKey(p) ==
  /\ Held(p)
  /\ RoomForEvent
  /\ LET key == coordkeys_pressed[p][1]
         at_press == coordkeys_pressed[p][2]
         new_layer == LayerAfterMacro(active_layer, key, FALSE)
     IN  /\ pixels' = ProcessKeyPixels(pixels, key, FALSE, p,
                                       ReleaseLayer(active_layer, at_press))
         /\ active_layer' = new_layer
         /\ text' = IF MacroRuns(key, FALSE)
                    THEN OledText(new_layer, last_key_pressed) ELSE text
         /\ returned' = ProcessKeyReturn(key)
         /\ cycle_log' = LogWith([kind |-> "release", pos |-> p])
  /\ coordkeys_pressed' = [coordkeys_pressed EXCEPT ![p] = << >>]
  /\ phase' = "events"
  /\ UNCHANGED << last_key_pressed, last_layer, n_external, net_zero >>

\* LayerWatch.matrix_scan: the pass that ends a scan cycle.
MatrixScan ==
  LET remembered == IF last_layer = << >> THEN InitialLastLayer(active_layer)
                    ELSE last_layer[1]
      cur == active_layer
  IN  /\ IF WatchChanged(cur, remembered)
         THEN /\ pixels' = apply_layer_colors(pixels, cur)
              /\ text' = OledText(cur, last_key_pressed)
              /\ last_layer' = << cur >>
         ELSE /\ UNCHANGED << pixels, text >>
              /\ last_layer' = << remembered >>
      /\ cycle_log' = IF phase = "scanned" THEN << >> ELSE cycle_log
      /\ phase' = "scanned"
      /\ UNCHANGED << active_layer, last_key_pressed, coordkeys_pressed,
                      returned, n_external, net_zero >>

\* keyboard.activate_layer(new) reached by a path other than the two cycle
\* keys: the layer changes, nothing else is told.
ExternalActivate(new) ==
  /\ new # active_layer
  /\ n_external < MaxExternal
  /\ RoomForEvent
  /\ n_external' = n_external + 1
  /\ active_layer' = new
  /\ cycle_log' = LogWith([kind |-> "activate", pos |-> new])
  /\ phase' = "events"
  /\ net_zero' = FALSE
  /\ UNCHANGED << pixels, last_key_pressed, text, last_layer,
                  coordkeys_pressed, returned >>

Next ==
  \/ \E p \in ScanKeys : PressKey(p)
  \/ \E p \in ScanKeys : ReleaseKey(p)
  \/ MatrixScan

Spec == Init /\ [][Next]_vars

\* The same program with layer activations from outside the two cycle keys.
NextExt ==
  \/ Next
  \/ \E new \in Layers : ExternalActivate(new)

SpecExt == Init /\ [][NextExt]_vars

\* ------------------------------------------------------------------------
\* Vocabulary of the properties
\* ------------------------------------------------------------------------
PressEvent(p) == [kind |-> "press", pos |-> p]
ReleaseEvent(p) == [kind |-> "release", pos |-> p]

\* The step presses / releases position p.
IsPress(p) == ~Held(p) /\ Held(p)'
IsRelease(p) == Held(p) /\ ~Held(p)'

\* A scan cycle has just ended (its LayerWatch pass has run).
CycleEnded == phase = "scanned"

\* The event handled last in the running cycle, if any.
HasLastEvent == phase = "events" /\ cycle_log # << >>
LastEvent == cycle_log[Len(cycle_log)]

\* The layer was cycled during the cycle: every press of 14 / 15 changes it.
LayerChangedInCycle ==
  \E i \in 1 .. Len(cycle_log) :
    cycle_log[i].kind = "press" /\ cycle_log[i].pos \in CycleKeys

AllBase == \A i \in Positions : pixels[i] = BaseColor(active_layer)

\* ------------------------------------------------------------------------
\* Properties
\* ------------------------------------------------------------------------

\* C1: whenever a scan cycle ends with no key held, every one of the 16
\* pixels equals layer_base_colors[active_layer].
C1_IdleColorInvariant == (CycleEnded /\ HeldSet = {}) => AllBase

\* C2: when p was pressed under one layer and is released under another,
\* the release sets pixel p to the base color of the layer active at the
\* release, never to that of the layer active at the press.
C2_ReleaseUsesLayerAtRelease ==
  [][\A p \in Positions :
       (IsRelease(p) /\ coordkeys_pressed[p][2] # active_layer)
         => /\ pixels'[p] = BaseColor(active_layer)
            /\ pixels'[p] # BaseColor(coordkeys_pressed[p][2])]_vars

\* C2 witness: plain key pressed, layer cycled while it is held, key released.
C2_Witness ==
  /\ phase = "events"
  /\ Len(cycle_log) = 3
  /\ cycle_log[1].kind = "press" /\ cycle_log[1].pos \notin CycleKeys
  /\ cycle_log[2].kind = "press" /\ cycle_log[2].pos \in CycleKeys
  /\ cycle_log[3] = ReleaseEvent(cycle_log[1].pos)
  /\ pixels[cycle_log[1].pos] = BaseColor(active_layer)

\* C3: the LayerWatch pass that follows a change of active_layer leaves all
\* 16 pixels at layer_base_colors[active_layer] and the status text showing
\* the new layer, also when the watcher has not run before.
C3_ReconciledAfterOnePass ==
  (CycleEnded /\ LayerChangedInCycle)
    => AllBase /\ text = OledText(active_layer, last_key_pressed)

\* C4: at the end of every scan cycle each held position shows the pressed
\* override and every other position shows layer_base_colors[active_layer].
C4_HeldKeyOverride ==
  CycleEnded =>
    \A i \in Positions :
      pixels[i] = IF Held(i) THEN PressedColor ELSE BaseColor(active_layer)

\* C5: the active layer stays in 0..3; prev_layer from layer 0 yields 3 and
\* next_layer from layer 3 yields 0.
C5_LayerRangeAndWrap ==
  [][/\ active_layer' \in Layers
     /\ (IsPress(14) /\ active_layer = 0) => active_layer' = NumLayers - 1
     /\ (IsPress(15) /\ active_layer = NumLayers - 1) => active_layer' = 0]_vars

\* C5 witness: prev_layer run from the initial layer 0 has wrapped to 3.
C5_Witness ==
  /\ phase = "events"
  /\ last_layer = << >>
  /\ cycle_log = << PressEvent(14) >>
  /\ active_layer = NumLayers - 1

\* C6: next_layer applied 4 times returns to the start, and prev_layer is
\* the inverse of next_layer (in both orders).
C6_CycleAlgebra ==
  [][/\ IsPress(15) =>
          /\ prev_layer_new(active_layer') = active_layer
          /\ next_layer_new(next_layer_new(next_layer_new(active_layer')))
               = active_layer
     /\ IsPress(14) => next_layer_new(active_layer') = active_layer]_vars

\* C6 witness: next_layer has run from layer 3 (the watcher remembers 3).
C6_Witness ==
  /\ HasLastEvent
  /\ LastEvent = PressEvent(15)
  /\ last_layer = << NumLayers - 1 >>
  /\ active_layer = 0

\* C7 (as stated): a press of a cycle key changes the layer and the layer in
\* the status text but leaves the last-key label unchanged.
C7_CyclePressKeepsLabel ==
  [][\A p \in CycleKeys :
       IsPress(p) =>
         /\ active_layer' # active_layer
         /\ last_key_pressed' = last_key_pressed
         /\ text' = OledText(active_layer', last_key_pressed)]_vars

\* C7 (amended): a press of a cycle key changes the layer and the layer in
\* the status text, and sets the last-key label to the label of the cycle
\* key itself, which the status text then shows.
C7_CyclePressRecordsOwnLabel ==
  [][\A p \in CycleKeys :
       IsPress(p) =>
         /\ active_layer' # active_layer
         /\ last_key_pressed' = Str(KeyAt(active_layer, p))
         /\ last_key_pressed' \in {Str(L_PREV), Str(L_NEXT)}
         /\ text' = OledText(active_layer', Str(KeyAt(active_layer, p)))]_vars

\* C7 witness: a plain key was pressed, then the forward cycle key.
C7_Witness ==
  /\ HasLastEvent
  /\ Len(cycle_log) >= 2
  /\ cycle_log[1].kind = "press" /\ cycle_log[1].pos \notin CycleKeys
  /\ LastEvent = PressEvent(15)
  /\ last_key_pressed = Str(L_NEXT)
  /\ text = OledText(active_layer, Str(L_NEXT))

\* C8: after a scan cycle whose only event is a press of position 15, with
\* no other key held, all 16 pixels (pixel 15 included) equal the base color
\* of the new layer.
C8_ForwardPressRecolorsAll ==
  (CycleEnded /\ cycle_log = << PressEvent(15) >> /\ HeldSet = {15}) => AllBase

\* C9: a press of a position whose symbol is KC.NO sets its pixel to
\* (0,0,0,255) and the release of that key sets it to
\* layer_base_colors[active_layer].
C9_NoOpKeyFeedback ==
  [][\A p \in Positions :
       /\ (IsPress(p) /\ KeyAt(active_layer, p) = "NO")
            => pixels'[p] = PressedColor
       /\ (IsRelease(p) /\ coordkeys_pressed[p][1] = "NO")
            => pixels'[p] = BaseColor(active_layer')]_vars

\* C9 witness: position 13 pressed and released on a layer where it is KC.NO.
C9_Witness ==
  /\ phase = "events"
  /\ cycle_log = << PressEvent(13), ReleaseEvent(13) >>
  /\ KeyAt(active_layer, 13) = "NO"
  /\ pixels[13] = BaseColor(active_layer)

\* C10: a release of a cycle key leaves active_layer, the last-key label and
\* the status text unchanged and only restores its own pixel to
\* layer_base_colors[active_layer].
C10_CycleReleaseOnlyRestoresPixel ==
  [][\A p \in CycleKeys :
       IsRelease(p) =>
         /\ active_layer' = active_layer
         /\ last_key_pressed' = last_key_pressed
         /\ text' = text
         /\ last_layer' = last_layer
         /\ pixels' = [pixels EXCEPT ![p] = BaseColor(active_layer)]]_vars

\* C10 witness: a cycle key has been released and its pixel shows the base color.
C10_Witness ==
  /\ HasLastEvent
  /\ LastEvent.kind = "release" /\ LastEvent.pos \in CycleKeys
  /\ ~Held(LastEvent.pos)
  /\ pixels[LastEvent.pos] = BaseColor(active_layer)

\* The labels the status text can show.
Labels == {"None"} \cup {Str(KeyAt(l, p)) : l \in Layers, p \in Positions}

\* The step is a LayerWatch pass.
IsScan == phase' = "scanned"

C12_SingleSlotFrame ==
  [][\A p \in Positions :
       (IsPress(p) \/ IsRelease(p))
         => \A q \in Positions \ {p} : pixels'[q] = pixels[q]]_vars

\* C12 witness: one of two held keys was released, the other still shows
\* the override.
C12_Witness ==
  /\ HasLastEvent
  /\ LastEvent.kind = "release"
  /\ \E q \in Positions \ {LastEvent.pos} :
       Held(q) /\ pixels[q] = PressedColor

\* C13: process_key returns the key it was given, for every press and every
\* release.
C13_ReturnsKeyUnchanged ==
  [][\A p \in Positions :
       /\ IsPress(p) => returned' = << KeyAt(active_layer, p) >>
       /\ IsRelease(p) => returned' = << coordkeys_pressed[p][1] >>]_vars

\* C13 witness: the press of the forward cycle key returned L_NEXT.
C13_Witness ==
  /\ HasLastEvent
  /\ LastEvent = PressEvent(15)
  /\ returned = << L_NEXT >>

\* C14: the last-key label is the label of the most recent press (the
\* sentinel before any press); only a press changes it, and each press puts
\* the new label into the status text.
C14_LastKeyLabelTracking ==
  /\ last_key_pressed = "None"
  /\ [][/\ \A p \in Positions :
            /\ IsPress(p) =>
                 /\ last_key_pressed' = Str(KeyAt(active_layer, p))
                 /\ text' = OledText(active_layer', last_key_pressed')
            /\ IsRelease(p) => last_key_pressed' = last_key_pressed
        /\ IsScan => last_key_pressed' = last_key_pressed
        /\ last_key_pressed' # last_key_pressed
             => \E p \in Positions : IsPress(p)]_vars

\* C14 witness: position 13 pressed and released, the cycle ended, and the
\* label is still that of the key pressed.
C14_Witness ==
  /\ CycleEnded
  /\ cycle_log = << PressEvent(13), ReleaseEvent(13) >>
  /\ last_key_pressed = Str(KeyAt(active_layer, 13))
  /\ text = OledText(active_layer, last_key_pressed)

\* C15: a LayerWatch pass that finds active_layer equal to the remembered
\* _last_layer leaves the 16 pixels, the status text and _last_layer as
\* they are.
C15_UnchangedLayerPassIsNoOp ==
  [][(IsScan /\ last_layer = << active_layer >>)
       => /\ pixels' = pixels
          /\ text' = text
          /\ last_layer' = last_layer]_vars

\* C15 witness: after an earlier recolouring to a layer other than 0, a cycle
\* that only pressed position 13 has ended and pixel 13 still shows the
\* override.
C15_Witness ==
  /\ CycleEnded
  /\ cycle_log = << PressEvent(13) >>
  /\ active_layer # 0
  /\ pixels[0] = BaseColor(active_layer)
  /\ Held(13) /\ pixels[13] = PressedColor

\* C16: the first LayerWatch pass only records active_layer as _last_layer
\* and changes neither pixels nor status text; after every pass _last_layer
\* equals active_layer.
C16_FirstPassOnlyRecords ==
  [][IsScan =>
       /\ last_layer' = << active_layer' >>
       /\ last_layer = << >> =>
            /\ last_layer' = << active_layer >>
            /\ pixels' = pixels
            /\ text' = text]_vars

\* C16 witness: the first pass ran after the forward cycle key was pressed:
\* layer 1 is recorded and the pixels are those of before the pass.
C16_Witness ==
  /\ CycleEnded
  /\ cycle_log = << PressEvent(15) >>
  /\ last_layer = << 1 >> /\ active_layer = 1
  /\ pixels[0] = BaseColor(0)
  /\ pixels[15] = PressedColor

\* C17: after a cycle in which the layer was cycled away and back with a
\* release of a previously held key in between, once all keys are released
\* every pixel equals layer_base_colors[active_layer].
C17_NetZeroKeepsIdleColors == (net_zero /\ HeldSet = {}) => AllBase

\* C18: active_layer changes only in a press of position 14 or 15.
C18_LayerChangedOnlyByCycleKeys ==
  [][active_layer' # active_layer => \E p \in CycleKeys : IsPress(p)]_vars

\* C18 witness: a press and a release of position 13 and a LayerWatch pass
\* have run on a layer other than 0, and the layer is the one the watcher
\* remembered.
C18_Witness ==
  /\ CycleEnded
  /\ cycle_log = << PressEvent(13), ReleaseEvent(13) >>
  /\ active_layer # 0
  /\ last_layer = << active_layer >>
  /\ pixels[0] = BaseColor(active_layer)

\* C19: for every layer 0..3, apply_layer_colors run once or twice on the
\* current buffer gives the same 16 pixels, each equal to
\* layer_base_colors[layer].
C19_ApplyLayerColorsIdempotent ==
  \A l \in Layers :
    LET once == apply_layer_colors(pixels, l)
        twice == apply_layer_colors(once, l)
    IN  /\ twice = once
        /\ DOMAIN once = Positions
        /\ \A i \in Positions : once[i] = BaseColor(l)

\* C19 witness: a LayerWatch pass has run apply_layer_colors over a buffer
\* that held an override pixel.
C19_Witness ==
  /\ CycleEnded
  /\ active_layer # 0
  /\ HeldSet # {}
  /\ AllBase

====
